---- MODULE Spec2Model ----
(***************************************************************************)
(* A model of phantom's worktree lifecycle: attachWorktreeCore, the        *)
(* execution bridge (execInWorktree, shellInWorktree), shellHandler and    *)
(* deleteHandler, run against a file system, a version-control backend,    *)
(* a process backend and a terminal multiplexer.                           *)
(*                                                                         *)
(* A worktree name is a sequence of tokens: "/" is a path separator, "."   *)
(* and ".." are the directory tokens, any other token is plain text.  A    *)
(* path is a sequence of segments.                                         *)
(***************************************************************************)
EXTENDS Integers, Sequences, FiniteSets, TLC

VARIABLES
    dirs,        \* the directories that exist (a set of paths)
    registered,  \* the paths the version-control backend knows as worktrees
    dirty,       \* the worktree paths holding uncommitted changes
    branches,    \* the branch names of the repository
    apc,         \* attachWorktreeCore: position of each invocation
    aname,       \* attachWorktreeCore: the name argument of each invocation
    ares,        \* attachWorktreeCore: the value each invocation returned
    alog,        \* attachWorktreeCore: the events of all invocations, in order
    epc,         \* execution bridge: position of the current call
    eop,         \* execution bridge: the operation and its arguments
    evalidation, \* execution bridge: the validation result held across the await
    eres,        \* execution bridge: the value the call returned
    spawns,      \* the configurations spawnProcess was called with, in order
    hpc,         \* CLI handler: position
    hargs,       \* CLI handler: the parsed arguments and ambient inputs
    hloc,        \* CLI handler: its local variables
    hexit,       \* CLI handler: the process exit (code and message)
    hlog,        \* CLI handler: the collaborator calls it made, in order
    vconfig,     \* validateConfig: the value it is called with
    vresult      \* validateConfig: the value it returned

fsVars == <<dirs, registered, dirty, branches>>
attachVars == <<apc, aname, ares, alog>>
execVars == <<epc, eop, evalidation, eres>>
handlerVars == <<hpc, hargs, hloc, hexit, hlog>>
configVars == <<vconfig, vresult>>
vars == <<fsVars, attachVars, execVars, spawns, handlerVars, configVars>>

----------------------------------------------------------------------------
(* Result<T, E> *)

ok(v) == [ok |-> TRUE, value |-> v]
err(e) == [ok |-> FALSE, error |-> e]
isOk(r) == r.ok
isErr(r) == ~r.ok

NoResult == [ok |-> FALSE, error |-> [name |-> "none"]]

(* An optional exit code: undefined, or a number. *)
Undefined == [def |-> FALSE, val |-> 0]
Num(c) == [def |-> TRUE, val |-> c]

(* a ?? b *)
Nullish(a, b) == IF a.def THEN a.val ELSE b

----------------------------------------------------------------------------
(* Names and paths *)

Names ==
    { <<"a">>, <<"b">>, <<>>, <<".">>, <<"..">>, <<"a", "/", "b">> }

GitRoot == <<"repo">>
WorktreesDirectory == GitRoot \o <<".git", "phantom", "worktrees">>

Contains(s, t) == \E i \in 1..Len(s) : s[i] = t

InvalidWorktreeNameError(name) ==
    [name |-> "InvalidWorktreeNameError", subject |-> name, hasExitCode |-> FALSE,
     exitCode |-> Undefined]
WorktreeAlreadyExistsError(name) ==
    [name |-> "WorktreeAlreadyExistsError", subject |-> name, hasExitCode |-> FALSE,
     exitCode |-> Undefined]
WorktreeNotFoundError(name) ==
    [name |-> "WorktreeNotFoundError", subject |-> name, hasExitCode |-> FALSE,
     exitCode |-> Undefined]
BranchNotFoundError(name) ==
    [name |-> "BranchNotFoundError", subject |-> name, hasExitCode |-> FALSE,
     exitCode |-> Undefined]
GitError(name) ==
    [name |-> "GitError", subject |-> name, hasExitCode |-> FALSE,
     exitCode |-> Undefined]

validateWorktreeName(name) ==
    IF name = <<>> \/ Contains(name, "/") \/ Contains(name, "..") \/ name = <<".">>
    THEN err(InvalidWorktreeNameError(name))
    ELSE ok(name)

RECURSIVE Normalize(_, _)
Normalize(done, rest) ==
    IF rest = <<>> THEN done
    ELSE LET s == Head(rest) IN
         IF s = "." \/ s = "/" THEN Normalize(done, Tail(rest))
         ELSE IF s = ".."
              THEN Normalize(IF done = <<>> THEN done ELSE SubSeq(done, 1, Len(done) - 1),
                             Tail(rest))
              ELSE Normalize(Append(done, s), Tail(rest))

getWorktreePath(gitRoot, name) ==
    Normalize(<<>>, gitRoot \o <<".git", "phantom", "worktrees">> \o name)

ValidNames == { n \in Names : isOk(validateWorktreeName(n)) }
WorktreePaths == { getWorktreePath(GitRoot, n) : n \in ValidNames }

existsSync(path) == path \in dirs

----------------------------------------------------------------------------
(* The file system and the repository before any operation.  A worktree   *)
(* directory lies in the worktrees directory; a directory may exist       *)
(* without the backend knowing it as a worktree (an orphaned directory);  *)
(* what the backend answers for the worktrees directory itself is left    *)
(* open.                                                                  *)

FsInit ==
    /\ \E W \in SUBSET WorktreePaths :
         \E B \in SUBSET {WorktreesDirectory} :
            /\ (W # {} => B # {})
            /\ dirs = W \cup B
    /\ registered \in SUBSET dirs
    /\ dirty \in SUBSET (dirs \cap WorktreePaths)
    /\ branches \in SUBSET ValidNames

----------------------------------------------------------------------------
(* The version-control backend *)

(* branchExists(gitRoot, name): the answers the backend can give. *)
branchExists(gitRoot, name) ==
    { ok(name \in branches), err(GitError(name)) }

(* attachWorktree(gitRoot, path, name): the outcomes the backend can produce, *)
(* each with the directories and worktree records it leaves behind.  A failed *)
(* attach may leave the directory it created.                                 *)
attachWorktree(gitRoot, path, name) ==
    LET made == dirs \cup {path, WorktreesDirectory} IN
    (IF path \in dirs THEN {}
     ELSE { [result |-> ok(TRUE), dirs |-> made, registered |-> registered \cup {path}] })
    \cup { [result |-> err(GitError(name)), dirs |-> dirs, registered |-> registered] }
    \cup (IF path \in dirs THEN {}
          ELSE { [result |-> err(GitError(name)), dirs |-> made,
                  registered |-> registered] })

----------------------------------------------------------------------------
(* attachWorktreeCore(gitRoot, name) *)

Invocations == {1, 2}

Event(p, ev, name, detail) == [p |-> p, ev |-> ev, name |-> name, detail |-> detail]

(* attachWorktreeCore_entry without the existsSync check of lines 18-20. *)
attachWorktreeCore_entry_noExistsCheck(gitRoot, name) ==
    LET validation == validateWorktreeName(name)
    IN  IF isErr(validation) THEN [next |-> "done", res |-> validation]
        ELSE [next |-> "branchExists", res |-> NoResult]

(* Lines 12-22: up to the first await. *)
attachWorktreeCore_entry(gitRoot, name) ==
    LET validation == validateWorktreeName(name)
        worktreePath == getWorktreePath(gitRoot, name)
    IN  IF isErr(validation) THEN [next |-> "done", res |-> validation]
        ELSE IF existsSync(worktreePath)
             THEN [next |-> "done", res |-> err(WorktreeAlreadyExistsError(name))]
             ELSE [next |-> "branchExists", res |-> NoResult]

(* attachWorktreeCore_afterBranch without the value check of lines 27-29. *)
attachWorktreeCore_afterBranch_noValueCheck(name, branchCheckResult) ==
    IF isErr(branchCheckResult)
    THEN [next |-> "done", res |-> err(branchCheckResult.error)]
    ELSE [next |-> "attachWorktree", res |-> NoResult]

(* Lines 23-31: from the answer of branchExists to the next await. *)
attachWorktreeCore_afterBranch(name, branchCheckResult) ==
    IF isErr(branchCheckResult)
    THEN [next |-> "done", res |-> err(branchCheckResult.error)]
    ELSE IF ~branchCheckResult.value
         THEN [next |-> "done", res |-> err(BranchNotFoundError(name))]
         ELSE [next |-> "attachWorktree", res |-> NoResult]

(* attachWorktreeCore_afterAttach without the isErr check of lines 33-35. *)
attachWorktreeCore_afterAttach_ignoreError(gitRoot, name, attachResult) ==
    ok(getWorktreePath(gitRoot, name))

(* Lines 32-36: from the answer of attachWorktree to the return. *)
attachWorktreeCore_afterAttach(gitRoot, name, attachResult) ==
    IF isErr(attachResult) THEN err(attachResult.error)
    ELSE ok(getWorktreePath(gitRoot, name))

ReturnDetail(res) == IF isOk(res) THEN "ok" ELSE res.error.name

AttachCall(p, name) ==
    /\ apc[p] = "idle"
    /\ LET e == attachWorktreeCore_entry(GitRoot, name) IN
         /\ apc' = [apc EXCEPT ![p] = e.next]
         /\ ares' = [ares EXCEPT ![p] = e.res]
         /\ alog' = alog \o <<Event(p, "call", name, "")>>
                         \o (IF e.next = "done"
                             THEN <<Event(p, "return", name, ReturnDetail(e.res))>>
                             ELSE <<Event(p, "branchExists", name, "")>>)
    /\ aname' = [aname EXCEPT ![p] = name]
    /\ UNCHANGED <<fsVars, execVars, spawns, handlerVars, configVars>>

AttachBranchChecked(p) ==
    /\ apc[p] = "branchExists"
    /\ \E branchCheckResult \in branchExists(GitRoot, aname[p]) :
         LET e == attachWorktreeCore_afterBranch(aname[p], branchCheckResult)
             answer == IF isErr(branchCheckResult) THEN "error"
                       ELSE IF branchCheckResult.value THEN "true" ELSE "false"
         IN /\ apc' = [apc EXCEPT ![p] = e.next]
            /\ ares' = [ares EXCEPT ![p] = e.res]
            /\ alog' = alog \o <<Event(p, "branchExists.result", aname[p], answer)>>
                            \o (IF e.next = "done"
                                THEN <<Event(p, "return", aname[p], ReturnDetail(e.res))>>
                                ELSE <<Event(p, "attachWorktree", aname[p], "")>>)
    /\ UNCHANGED <<fsVars, aname, execVars, spawns, handlerVars, configVars>>

(* AttachBackendDone with the name kept in a variable shared by the *)
(* invocations: the backend is called with the name of the latest call. *)
AttachBackendDone_sharedName(p) ==
    /\ apc[p] = "attachWorktree"
    /\ LET calls == { k \in 1..Len(alog) : alog[k].ev = "call" }
           latest == alog[CHOOSE k \in calls : \A j \in calls : j <= k].name
       IN \E o \in attachWorktree(GitRoot, getWorktreePath(GitRoot, latest), latest) :
         LET res == attachWorktreeCore_afterAttach(GitRoot, latest, o.result) IN
            /\ dirs' = o.dirs
            /\ registered' = o.registered
            /\ apc' = [apc EXCEPT ![p] = "done"]
            /\ ares' = [ares EXCEPT ![p] = res]
            /\ alog' = alog \o <<Event(p, "attachWorktree.result", aname[p],
                                        IF isOk(o.result) THEN "ok" ELSE "error"),
                                  Event(p, "return", aname[p], ReturnDetail(res))>>
    /\ UNCHANGED <<dirty, branches, aname, execVars, spawns, handlerVars,
                 configVars>>

(* Lines 32-36: attachWorktree answers and attachWorktreeCore returns. *)
AttachBackendDone(p) ==
    /\ apc[p] = "attachWorktree"
    /\ \E o \in attachWorktree(GitRoot, getWorktreePath(GitRoot, aname[p]), aname[p]) :
         LET res == attachWorktreeCore_afterAttach(GitRoot, aname[p], o.result) IN
            /\ dirs' = o.dirs
            /\ registered' = o.registered
            /\ apc' = [apc EXCEPT ![p] = "done"]
            /\ ares' = [ares EXCEPT ![p] = res]
            /\ alog' = alog \o <<Event(p, "attachWorktree.result", aname[p],
                                        IF isOk(o.result) THEN "ok" ELSE "error"),
                                  Event(p, "return", aname[p], ReturnDetail(res))>>
    /\ UNCHANGED <<dirty, branches, aname, execVars, spawns, handlerVars,
                 configVars>>

AttachInit ==
    /\ apc = [p \in Invocations |-> "idle"]
    /\ aname = [p \in Invocations |-> <<>>]
    /\ ares = [p \in Invocations |-> NoResult]
    /\ alog = <<>>

(* The local variables of a handler before it assigns them. *)
NoLocals ==
    [worktreeName |-> <<>>, configResult |-> NoResult, force |-> FALSE,
     result |-> NoResult, commands |-> <<>>, i |-> 0]

ExecIdle ==
    /\ epc = "idle"
    /\ eop = [op |-> "none"]
    /\ evalidation = NoResult
    /\ eres = NoResult

ConfigIdle ==
    /\ vconfig = [t |-> "undefined", items |-> <<>>, fields |-> <<>>]
    /\ vresult = NoResult

HandlerIdle ==
    /\ hpc = "idle"
    /\ hargs = [handler |-> "none"]
    /\ hloc = NoLocals
    /\ hexit = [exited |-> FALSE, code |-> 0, message |-> <<>>]
    /\ hlog = <<>>

InitAttach ==
    FsInit /\ AttachInit /\ ExecIdle /\ spawns = <<>> /\ HandlerIdle /\ ConfigIdle

NextAttach ==
    \E p \in Invocations :
        \/ \E name \in Names : AttachCall(p, name)
        \/ AttachBranchChecked(p)
        \/ AttachBackendDone(p)

SpecAttach == InitAttach /\ [][NextAttach]_vars

----------------------------------------------------------------------------
(* The process backend *)

MaxExitCode == 4
ExitCodes == 0..MaxExitCode

ProcessSpawnError(command) ==
    [name |-> "ProcessSpawnError", subject |-> command, hasExitCode |-> FALSE,
     exitCode |-> Undefined]
ProcessSignalError(command, exitCode) ==
    [name |-> "ProcessSignalError", subject |-> command, hasExitCode |-> TRUE,
     exitCode |-> exitCode]

(* What a started child can do: exit with a code, fail to start, or be *)
(* ended by a signal (which may or may not yield an exit code).        *)
ChildOutcomes ==
    { [kind |-> "exit", code |-> Num(c)] : c \in ExitCodes }
    \cup { [kind |-> "spawnError", code |-> Undefined] }
    \cup { [kind |-> "signal", code |-> x] :
              x \in {Undefined} \cup { Num(c) : c \in ExitCodes } }

(* spawnProcess(config), for a child that ends with `outcome`: the exit code *)
(* is the success value, whatever it is.                                     *)
spawnProcess(config, outcome) ==
    IF outcome.kind = "exit" THEN ok([exitCode |-> outcome.code.val])
    ELSE IF outcome.kind = "spawnError" THEN err(ProcessSpawnError(config.command))
    ELSE err(ProcessSignalError(config.command, outcome.code))

(* Environments are functions from variable names to values. *)
Merge(a, b) ==
    [k \in DOMAIN a \cup DOMAIN b |-> IF k \in DOMAIN b THEN b[k] ELSE a[k]]

NoEnv == [def |-> FALSE, val |-> <<>>]
Env(e) == [def |-> TRUE, val |-> e]

getPhantomEnv(worktreeName, worktreePath) ==
    [PHANTOM |-> "1", PHANTOM_NAME |-> worktreeName, PHANTOM_PATH |-> worktreePath]

(* The environments a phantom process may itself be started with: no SHELL, *)
(* a SHELL, and a shell already opened inside another worktree.             *)
ProcessEnvs ==
    { <<>>,
      [SHELL |-> "/bin/bash"],
      Merge([SHELL |-> "/bin/bash"],
            getPhantomEnv(<<"b">>, getWorktreePath(GitRoot, <<"b">>))) }

(* process.env.SHELL || "/bin/sh" *)
ShellOf(processEnv) ==
    IF "SHELL" \in DOMAIN processEnv /\ processEnv["SHELL"] # ""
    THEN processEnv["SHELL"] ELSE "/bin/sh"

(* The environment the child process gets: options.env when given, else the *)
(* parent's own.                                                            *)
ChildEnv(config, processEnv) ==
    IF config.env.def THEN config.env.val ELSE processEnv

----------------------------------------------------------------------------
(* validateWorktreeExists(gitRoot, name) *)

validateWorktreeExists(gitRoot, name) ==
    LET worktreePath == getWorktreePath(gitRoot, name) IN
    IF worktreePath \in dirs /\ worktreePath \in registered
    THEN ok([path |-> worktreePath])
    ELSE err(WorktreeNotFoundError(name))

----------------------------------------------------------------------------
(* The execution bridge: execInWorktree and shellInWorktree *)

ProcessExecutionError(exitCode) ==
    [name |-> "ProcessExecutionError", subject |-> "", hasExitCode |-> TRUE,
     exitCode |-> Num(exitCode)]

(* execInWorktree_return turning a nonzero exit code into a failure. *)
execInWorktree_return_nonzeroFails(spawnResult) ==
    IF isOk(spawnResult) /\ spawnResult.value.exitCode # 0
    THEN err(ProcessExecutionError(spawnResult.value.exitCode))
    ELSE spawnResult

(* execInWorktree_afterValidate without the early return of lines 61-63. *)
execInWorktree_afterValidate_noEarlyReturn(validation, command, options) ==
    [spawn |-> TRUE,
     config |-> [command |-> Head(command), args |-> Tail(command),
                 cwd |-> IF isOk(validation) THEN validation.value.path
                         ELSE WorktreesDirectory,
                 stdio |-> <<"inherit">>, env |-> NoEnv]]

(* execInWorktree lines 61-79, from the answer of validateWorktreeExists: *)
(* the value returned at once, or the configuration spawnProcess gets.    *)
execInWorktree_afterValidate(validation, command, options) ==
    IF isErr(validation)
    THEN [spawn |-> FALSE, res |-> err(validation.error)]
    ELSE LET worktreePath == validation.value.path
             cmd == Head(command)
             args == Tail(command)
             stdio == IF options.interactive THEN <<"inherit">>
                      ELSE <<"ignore", "inherit", "inherit">>
         IN [spawn |-> TRUE,
             config |-> [command |-> cmd, args |-> args, cwd |-> worktreePath,
                         stdio |-> stdio, env |-> NoEnv]]

(* Line 72: `return spawnProcess(...)`, the value is passed on as it is. *)
execInWorktree_return(spawnResult) == spawnResult

(* shellInWorktree, from the answer of validateWorktreeExists. *)
shellInWorktree_afterValidate(validation, worktreeName, processEnv) ==
    IF isErr(validation)
    THEN [spawn |-> FALSE, res |-> err(validation.error)]
    ELSE LET worktreePath == validation.value.path
             shell == ShellOf(processEnv)
         IN [spawn |-> TRUE,
             config |-> [command |-> shell, args |-> <<>>, cwd |-> worktreePath,
                         stdio |-> <<"inherit">>,
                         env |-> Env(Merge(processEnv,
                                           getPhantomEnv(worktreeName, worktreePath)))]]

Commands == { <<"ls">>, <<"/bin/sh", "-c", "make">> }

(* A call of execInWorktree: validateWorktreeExists is awaited. *)
ExecInWorktreeCall(gitRoot, worktreeName, command, options, processEnv) ==
    /\ epc' = "validate"
    /\ eop' = [op |-> "execInWorktree", worktreeName |-> worktreeName,
               command |-> command, options |-> options, processEnv |-> processEnv]
    /\ evalidation' = NoResult
    /\ eres' = NoResult

(* A call of shellInWorktree: validateWorktreeExists is awaited. *)
ShellInWorktreeCall(gitRoot, worktreeName, processEnv) ==
    /\ epc' = "validate"
    /\ eop' = [op |-> "shellInWorktree", worktreeName |-> worktreeName,
               command |-> <<>>, options |-> [interactive |-> TRUE],
               processEnv |-> processEnv]
    /\ evalidation' = NoResult
    /\ eres' = NoResult

(* validateWorktreeExists answers; the call returns the error, or calls *)
(* spawnProcess and awaits it.                                          *)
ExecValidated ==
    /\ epc = "validate"
    /\ LET validation == validateWorktreeExists(GitRoot, eop.worktreeName)
           e == IF eop.op = "execInWorktree"
                THEN execInWorktree_afterValidate(validation, eop.command, eop.options)
                ELSE shellInWorktree_afterValidate(validation, eop.worktreeName,
                                                   eop.processEnv)
       IN /\ evalidation' = validation
          /\ IF e.spawn
             THEN /\ epc' = "spawn"
                  /\ eres' = eres
                  /\ spawns' = Append(spawns,
                         [op |-> eop.op, worktreeName |-> eop.worktreeName,
                          config |-> e.config,
                          childEnv |-> ChildEnv(e.config, eop.processEnv),
                          outcome |-> [kind |-> "running", code |-> Undefined]])
             ELSE /\ epc' = "done"
                  /\ eres' = e.res
                  /\ spawns' = spawns
    /\ UNCHANGED eop

(* The spawned process ends (or could not be started): spawnProcess's value *)
(* is the value of the call.                                                *)
ExecSpawned ==
    /\ epc = "spawn"
    /\ \E outcome \in ChildOutcomes :
         LET last == spawns[Len(spawns)]
             spawnResult == spawnProcess(last.config, outcome)
         IN /\ spawns' = [spawns EXCEPT ![Len(spawns)].outcome = outcome]
            /\ eres' = IF eop.op = "execInWorktree"
                       THEN execInWorktree_return(spawnResult)
                       ELSE spawnResult
    /\ epc' = "done"
    /\ UNCHANGED <<eop, evalidation>>

(* The caller takes the value; the bridge is free for the next call. *)
ExecTaken ==
    /\ epc = "done"
    /\ epc' = "idle"
    /\ eop' = [op |-> "none"]
    /\ evalidation' = NoResult
    /\ eres' = NoResult

(* The execution bridge called directly, as the core's API; spawns holds the *)
(* spawnProcess calls of the current operation.                              *)
ExecApiCall ==
    /\ epc = "idle"
    /\ spawns' = spawns
    /\ \E worktreeName \in Names, processEnv \in ProcessEnvs :
         \/ \E command \in Commands, interactive \in BOOLEAN :
              ExecInWorktreeCall(GitRoot, worktreeName, command,
                                 [interactive |-> interactive], processEnv)
         \/ ShellInWorktreeCall(GitRoot, worktreeName, processEnv)
    /\ UNCHANGED <<fsVars, attachVars, handlerVars, configVars>>

ExecApiStep ==
    /\ \/ ExecValidated
       \/ ExecSpawned
       \/ ExecTaken /\ spawns' = <<>>
    /\ UNCHANGED <<fsVars, attachVars, handlerVars, configVars>>

InitExec ==
    FsInit /\ AttachInit /\ ExecIdle /\ spawns = <<>> /\ HandlerIdle /\ ConfigIdle

NextExec == ExecApiCall \/ ExecApiStep

SpecExec == InitExec /\ [][NextExec]_vars

----------------------------------------------------------------------------
(* The CLI layer: exit codes and process exit *)

exitCodes == [success |-> 0, generalError |-> 1, notFound |-> 2, validationError |-> 3]

(* error.message *)
Message(error) == <<error.name, error.subject>>

(* exitWithError(message, exitCode) and exitWithSuccess(): process.exit ends *)
(* the handler where it stands.                                             *)
exitWithError(message, exitCode) ==
    /\ hpc' = "exited"
    /\ hexit' = [exited |-> TRUE, code |-> exitCode, message |-> message]

exitWithSuccess ==
    /\ hpc' = "exited"
    /\ hexit' = [exited |-> TRUE, code |-> exitCodes.success, message |-> <<>>]

Called(fn, arg, result) == [fn |-> fn, arg |-> arg, result |-> result]

(* The handler is run once more, by a new process. *)
HandlerRestart ==
    /\ hpc = "exited"
    /\ hpc' = "idle"
    /\ hargs' = [handler |-> "none"]
    /\ hloc' = NoLocals
    /\ hexit' = [exited |-> FALSE, code |-> 0, message |-> <<>>]
    /\ hlog' = <<>>
    /\ spawns' = <<>>
    /\ UNCHANGED <<fsVars, attachVars, execVars, configVars>>

----------------------------------------------------------------------------
(* The terminal multiplexer *)

TmuxError(exitCode, hasExitCode) ==
    [name |-> "TmuxError", subject |-> "tmux", hasExitCode |-> hasExitCode,
     exitCode |-> exitCode]

(* executeTmuxCommand(options): ok(exitCode), or an error that may carry an *)
(* exit code.                                                               *)
executeTmuxCommand(options) ==
    { ok([exitCode |-> 0]) }
    \cup { err(TmuxError(Undefined, FALSE)), err(TmuxError(Undefined, TRUE)) }
    \cup { err(TmuxError(Num(c), TRUE)) : c \in ExitCodes }

----------------------------------------------------------------------------
(* shellHandler(args) *)

TmuxFlagSets ==
    { {}, {"tmux"}, {"tmux-vertical"}, {"tmux-v"}, {"tmux-horizontal"}, {"tmux-h"},
      {"tmux", "tmux-v"}, {"tmux-vertical", "tmux-h"} }

Positionals == { <<>> } \cup { <<n>> : n \in Names }

(* Lines 57-64. *)
tmuxDirection(values) ==
    IF "tmux" \in values THEN "new"
    ELSE IF "tmux-vertical" \in values \/ "tmux-v" \in values THEN "vertical"
    ELSE IF "tmux-horizontal" \in values \/ "tmux-h" \in values THEN "horizontal"
    ELSE "undefined"

(* Lines 50-55. *)
tmuxOption(values) == values # {}

(* The failure exit code with || in place of ??, as in line 165. *)
shellHandler_tmuxExitCode_or(error) ==
    IF error.hasExitCode /\ error.exitCode.def /\ error.exitCode.val # 0
    THEN error.exitCode.val
    ELSE exitCodes.generalError

(* Lines 144-147. *)
shellHandler_tmuxExitCode(error) ==
    IF error.hasExitCode
    THEN Nullish(error.exitCode, exitCodes.generalError)
    ELSE exitCodes.generalError

(* Lines 162-165. *)
shellHandler_shellExitCode(error) ==
    IF error.name = "WorktreeNotFoundError" THEN exitCodes.notFound
    ELSE IF error.exitCode.def /\ error.exitCode.val # 0 THEN error.exitCode.val
    ELSE exitCodes.generalError

(* Lines 19-83: the arguments are parsed and checked, getGitRoot is awaited. *)
ShellHandlerStart ==
    /\ hpc = "idle"
    /\ \E positionals \in Positionals, fzf \in BOOLEAN, tmux \in TmuxFlagSets,
          processEnv \in ProcessEnvs :
         /\ hargs' = [handler |-> "shell", positionals |-> positionals, fzf |-> fzf,
                      tmux |-> tmux, processEnv |-> processEnv]
         /\ IF Len(positionals) = 0 /\ ~fzf
            THEN exitWithError(<<"Usage">>, exitCodes.validationError)
            ELSE IF Len(positionals) > 0 /\ fzf
            THEN exitWithError(<<"Cannot specify both">>, exitCodes.validationError)
            ELSE hpc' = "getGitRoot" /\ hexit' = hexit
    /\ UNCHANGED <<hloc, hlog, fsVars, attachVars, execVars, spawns,
                 configVars>>

(* Lines 83-90: getGitRoot answers or throws; with a tmux option, *)
(* isInsideTmux is asked.                                         *)
ShellHandlerGitRoot ==
    /\ hpc = "getGitRoot" /\ hargs.handler = "shell"
    /\ \/ exitWithError(<<"Error", "getGitRoot">>, exitCodes.generalError)
       \/ \E inside \in BOOLEAN :
            IF tmuxOption(hargs.tmux) /\ ~inside
            THEN exitWithError(<<"The --tmux option">>, exitCodes.validationError)
            ELSE hpc' = "select" /\ hexit' = hexit
    /\ UNCHANGED <<hargs, hloc, hlog, fsVars, attachVars, execVars, spawns,
                 configVars>>

(* Lines 92-111: the name comes from fzf or from the arguments; *)
(* validateWorktreeExists is awaited.                            *)
ShellHandlerSelect ==
    /\ hpc = "select" /\ hargs.handler = "shell"
    /\ IF hargs.fzf
       THEN \/ exitWithError(<<"Error", "fzf">>, exitCodes.generalError)
               /\ hloc' = hloc
            \/ exitWithSuccess /\ hloc' = hloc
            \/ \E n \in ValidNames :
                 /\ hloc' = [hloc EXCEPT !.worktreeName = n]
                 /\ hpc' = "validate" /\ hexit' = hexit
       ELSE /\ hloc' = [hloc EXCEPT !.worktreeName = hargs.positionals[1]]
            /\ hpc' = "validate" /\ hexit' = hexit
    /\ UNCHANGED <<hargs, hlog, fsVars, attachVars, execVars, spawns,
                 configVars>>

(* Lines 111-159: validateWorktreeExists answers; the shell is handed to *)
(* tmux, or shellInWorktree is called.                                   *)
ShellHandlerValidated ==
    /\ hpc = "validate" /\ hargs.handler = "shell"
    /\ LET validation == validateWorktreeExists(GitRoot, hloc.worktreeName)
           direction == tmuxDirection(hargs.tmux)
       IN IF isErr(validation)
          THEN /\ exitWithError(Message(validation.error), exitCodes.generalError)
               /\ UNCHANGED <<hlog, execVars>>
          ELSE IF direction # "undefined"
          THEN /\ hpc' = "tmux" /\ hexit' = hexit
               /\ hlog' = Append(hlog, Called("executeTmuxCommand",
                     [direction |-> direction,
                      command |-> ShellOf(hargs.processEnv),
                      cwd |-> validation.value.path,
                      env |-> getPhantomEnv(hloc.worktreeName, validation.value.path),
                      windowName |-> IF direction = "new" THEN hloc.worktreeName
                                     ELSE <<>>],
                     NoResult))
               /\ UNCHANGED execVars
          ELSE /\ hpc' = "shell" /\ hexit' = hexit
               /\ hlog' = hlog
               /\ ShellInWorktreeCall(GitRoot, hloc.worktreeName, hargs.processEnv)
    /\ UNCHANGED <<hargs, hloc, fsVars, attachVars, spawns, configVars>>

(* Lines 138-151: tmux answers. *)
ShellHandlerTmuxDone ==
    /\ hpc = "tmux" /\ hargs.handler = "shell"
    /\ \E tmuxResult \in executeTmuxCommand(hlog[Len(hlog)].arg) :
         /\ hlog' = [hlog EXCEPT ![Len(hlog)].result = tmuxResult]
         /\ IF isErr(tmuxResult)
            THEN exitWithError(<<>>, shellHandler_tmuxExitCode(tmuxResult.error))
            ELSE exitWithSuccess
    /\ UNCHANGED <<hargs, hloc, fsVars, attachVars, execVars, spawns,
                 configVars>>

(* Lines 159-174: shellInWorktree returned. *)
ShellHandlerShellDone ==
    /\ hpc = "shell" /\ hargs.handler = "shell"
    /\ epc = "done"
    /\ IF isErr(eres)
       THEN exitWithError(Message(eres.error), shellHandler_shellExitCode(eres.error))
       ELSE /\ hpc' = "exited"
            /\ hexit' = [exited |-> TRUE, code |-> eres.value.exitCode,
                         message |-> <<>>]
    /\ ExecTaken
    /\ UNCHANGED <<hargs, hloc, hlog, fsVars, attachVars, spawns, configVars>>

(* The steps of the execution bridge while a handler awaits it. *)
HandlerExecStep ==
    /\ hpc \in {"shell", "hook"}
    /\ \/ ExecValidated
       \/ ExecSpawned
    /\ UNCHANGED <<fsVars, attachVars, handlerVars, configVars>>

(* shellHandler reads no branch. *)
InitShell ==
    FsInit /\ branches = ValidNames /\ AttachInit /\ ExecIdle /\ spawns = <<>>
    /\ HandlerIdle /\ ConfigIdle

NextShell ==
    \/ ShellHandlerStart
    \/ ShellHandlerGitRoot
    \/ ShellHandlerSelect
    \/ ShellHandlerValidated
    \/ ShellHandlerTmuxDone
    \/ ShellHandlerShellDone
    \/ HandlerExecStep
    \/ HandlerRestart

SpecShell == InitShell /\ [][NextShell]_vars

----------------------------------------------------------------------------
(* Configuration *)

MaxCommands == 3

ConfigNotFoundError ==
    [name |-> "ConfigNotFoundError", subject |-> <<>>, hasExitCode |-> FALSE,
     exitCode |-> Undefined]
ConfigParseError ==
    [name |-> "ConfigParseError", subject |-> <<>>, hasExitCode |-> FALSE,
     exitCode |-> Undefined]
ConfigValidationError ==
    [name |-> "ConfigValidationError", subject |-> <<>>, hasExitCode |-> FALSE,
     exitCode |-> Undefined]

(* The i-th command string of a configuration. *)
HookCommand(i) == <<"command", i>>

CommandLists == { [i \in 1..n |-> HookCommand(i)] : n \in 0..MaxCommands }

(* An optional field of the configuration. *)
Absent == [def |-> FALSE, val |-> <<>>]
Present(v) == [def |-> TRUE, val |-> v]

(* The configurations: postDelete and postDelete.commands are optional. *)
Configs ==
    { [postDelete |-> Absent], [postDelete |-> Present([commands |-> Absent])] }
    \cup { [postDelete |-> Present([commands |-> Present(c)])] : c \in CommandLists }

(* loadConfig(gitRoot): the values it can resolve to. *)
loadConfig(gitRoot) ==
    { err(ConfigNotFoundError), err(ConfigParseError), err(ConfigValidationError) }
    \cup { ok(c) : c \in Configs }

----------------------------------------------------------------------------
(* validateConfig(config) *)

MaxItems == 2

(* A parsed JSON value (or undefined): its type, the items of an array, *)
(* the properties of an object.  JString stands for a nonempty string,  *)
(* JNumber for a nonzero number.                                         *)
JUndefined == [t |-> "undefined", items |-> <<>>, fields |-> <<>>]
JNull == [t |-> "null", items |-> <<>>, fields |-> <<>>]
JString == [t |-> "string", items |-> <<>>, fields |-> <<>>]
JNumber == [t |-> "number", items |-> <<>>, fields |-> <<>>]
JArray(items) == [t |-> "array", items |-> items, fields |-> <<>>]
JObject(fields) == [t |-> "object", items |-> <<>>, fields |-> fields]

(* value[key]: undefined unless the value is an object with that property. *)
Get(value, key) ==
    IF value.t = "object" /\ key \in DOMAIN value.fields
    THEN value.fields[key]
    ELSE JUndefined

(* isObject of the shared package: an object that is neither null nor an *)
(* array.                                                                 *)
isObject(value) == value.t = "object"

(* Array.isArray(value) *)
IsArray(value) == value.t = "array"

(* value.every((x) => typeof x === "string") *)
EveryString(value) == \A k \in 1..Len(value.items) : value.items[k].t = "string"

ConfigValidationErrorOf(message) ==
    [ConfigValidationError EXCEPT !.subject = <<message>>]

validateConfig(config) ==
    IF ~isObject(config)
    THEN err(ConfigValidationErrorOf("Configuration must be an object"))
    ELSE LET postCreate == Get(config, "postCreate")
             copyFiles == Get(postCreate, "copyFiles")
             commands == Get(postCreate, "commands")
         IN IF postCreate # JUndefined
            THEN IF ~isObject(postCreate)
                 THEN err(ConfigValidationErrorOf("postCreate must be an object"))
                 ELSE IF copyFiles # JUndefined /\ ~IsArray(copyFiles)
                 THEN err(ConfigValidationErrorOf("postCreate.copyFiles must be an array"))
                 ELSE IF copyFiles # JUndefined /\ ~EveryString(copyFiles)
                 THEN err(ConfigValidationErrorOf(
                            "postCreate.copyFiles must contain only strings"))
                 ELSE IF commands # JUndefined /\ ~IsArray(commands)
                 THEN err(ConfigValidationErrorOf("postCreate.commands must be an array"))
                 ELSE IF commands # JUndefined /\ ~EveryString(commands)
                 THEN err(ConfigValidationErrorOf(
                            "postCreate.commands must contain only strings"))
                 ELSE ok(config)
            ELSE ok(config)

(* The values validateConfig is called with. *)
JArrays ==
    UNION { { JArray(items) : items \in [1..n -> {JString, JNumber}] } : n \in 0..MaxItems }

JListValues == {JUndefined, JString, JNumber, JObject(<<>>)} \cup JArrays

JPostCreateValues ==
    {JUndefined, JNull, JString, JArray(<<>>)}
    \cup { JObject([copyFiles |-> f, commands |-> c]) :
             f \in JListValues, c \in JListValues }

JPostDeleteValues ==
    {JUndefined, JNull, JString, JArray(<<>>)}
    \cup { JObject([commands |-> c]) : c \in JListValues }

JConfigValues ==
    {JNull, JString, JArray(<<>>)}
    \cup { JObject([postCreate |-> c, postDelete |-> d]) :
             c \in JPostCreateValues, d \in JPostDeleteValues }

(* Lines 123-127 of part_005: what the post-delete loop iterates over for  *)
(* a configuration value: nothing when postDelete?.commands is falsy, the   *)
(* items of an array, the characters of a string; any other value is not   *)
(* iterable and the loop throws.                                            *)
deleteHandler_loop(config) ==
    LET postDelete == Get(config, "postDelete")
        commands == Get(postDelete, "commands")
    IN IF commands.t \in {"undefined", "null"}
       THEN [throws |-> FALSE, items |-> <<>>]
       ELSE IF commands.t = "array"
       THEN [throws |-> FALSE, items |-> commands.items]
       ELSE IF commands.t = "string"
       THEN [throws |-> FALSE, items |-> <<JString>>]
       ELSE [throws |-> TRUE, items |-> <<>>]

(* validateConfig is called with a parsed value and returns. *)
ValidateConfigCall ==
    /\ vresult = NoResult
    /\ vresult' = validateConfig(vconfig)
    /\ UNCHANGED <<vconfig, fsVars, attachVars, execVars, spawns, handlerVars>>

InitConfig ==
    /\ dirs = {} /\ registered = {} /\ dirty = {} /\ branches = {}
    /\ AttachInit /\ ExecIdle /\ spawns = <<>> /\ HandlerIdle
    /\ vconfig \in JConfigValues
    /\ vresult = NoResult

NextConfig == ValidateConfigCall

SpecConfig == InitConfig /\ [][NextConfig]_vars

----------------------------------------------------------------------------
(* deleteWorktree(gitRoot, name, {force}) of the core *)

UncommittedChangesError(name) ==
    [name |-> "WorktreeError", subject |-> name, hasExitCode |-> FALSE,
     exitCode |-> Undefined]

(* error instanceof WorktreeError *)
IsWorktreeError(error) ==
    error.name \in {"WorktreeError", "WorktreeNotFoundError", "WorktreeAlreadyExistsError",
                    "InvalidWorktreeNameError", "BranchNotFoundError"}

(* error.message.includes("uncommitted changes") *)
MessageHasUncommittedChanges(error) == error.name = "WorktreeError"

(* Step 1: assert existence. *)
deleteWorktree_afterValidate(validation, options) ==
    IF isErr(validation) THEN [next |-> "done", res |-> err(validation.error)]
    ELSE IF options.force THEN [next |-> "core_remove", res |-> NoResult]
    ELSE [next |-> "core_status", res |-> NoResult]

(* Step 2: unless forced, a dirty worktree is refused. *)
deleteWorktree_afterStatus(name, path) ==
    IF path \in dirty
    THEN [next |-> "done", res |-> err(UncommittedChangesError(name))]
    ELSE [next |-> "core_remove", res |-> NoResult]

(* Step 3: the backend removes the directory and the worktree record, or *)
(* fails and leaves them.                                                *)
removeWorktree(gitRoot, path) ==
    { [result |-> ok(TRUE), dirs |-> dirs \ {path}, registered |-> registered \ {path},
       dirty |-> dirty \ {path}],
      [result |-> err(GitError(path)), dirs |-> dirs, registered |-> registered,
       dirty |-> dirty] }

(* Step 4: the confirmation message carries the name. *)
deleteWorktree_afterRemove(name, removeResult) ==
    IF isErr(removeResult) THEN err(removeResult.error)
    ELSE ok([message |-> <<"Deleted worktree", name>>])

(* Lines 72-80 (part_005): the warnings the handler prints for the result *)
(* of loadConfig.                                                         *)
deleteHandler_configWarnings_validationOnly(configResult) ==
    IF isErr(configResult)
    THEN IF configResult.error.name = "ConfigValidationError"
         THEN <<Called("output.warn", configResult.error.name, NoResult)>>
         ELSE <<>>
    ELSE <<>>

deleteHandler_configWarnings(configResult) ==
    IF isErr(configResult)
    THEN IF configResult.error.name = "ConfigValidationError"
         THEN <<Called("output.warn", configResult.error.name, NoResult)>>
         ELSE IF configResult.error.name = "ConfigParseError"
         THEN <<Called("output.warn", configResult.error.name, NoResult)>>
         ELSE <<>>
    ELSE <<>>

----------------------------------------------------------------------------
(* deleteHandler(args): part_004, and part_005 with the post-delete commands *)

(* getCurrentWorktree(gitRoot): it throws (an error answer here), or answers *)
(* null or the name of the worktree the process is in.                      *)
SelectionError(fn) ==
    [name |-> "Error", subject |-> <<fn>>, hasExitCode |-> FALSE, exitCode |-> Undefined]

getCurrentWorktree(gitRoot) ==
    { err(SelectionError("getCurrentWorktree")), ok(Absent) }
    \cup { ok(Present(n)) : n \in ValidNames }

(* selectWorktreeWithFzf(gitRoot): an error, no selection, or a worktree. *)
selectWorktreeWithFzf(gitRoot) ==
    { err(SelectionError("fzf")), ok(Absent) }
    \cup { ok(Present(n)) : n \in ValidNames }

(* deleteHandler_argCheck without the check of lines 43-48: --current *)
(* together with a name or --fzf.                                     *)
deleteHandler_argCheck_noCurrentConflict(positionals, deleteCurrent, useFzf) ==
    IF Len(positionals) = 0 /\ ~deleteCurrent /\ ~useFzf
    THEN [exit |-> TRUE, message |-> <<"Please provide a worktree name">>]
    ELSE IF Len(positionals) > 0 /\ useFzf
    THEN [exit |-> TRUE, message |-> <<"Cannot specify both">>]
    ELSE [exit |-> FALSE, message |-> <<>>]

(* Lines 36-55 (part_004), 44-63 (part_005): the three argument checks. *)
deleteHandler_argCheck(positionals, deleteCurrent, useFzf) ==
    IF Len(positionals) = 0 /\ ~deleteCurrent /\ ~useFzf
    THEN [exit |-> TRUE, message |-> <<"Please provide a worktree name">>]
    ELSE IF (Len(positionals) > 0 \/ useFzf) /\ deleteCurrent
    THEN [exit |-> TRUE, message |-> <<"Cannot specify --current">>]
    ELSE IF Len(positionals) > 0 /\ useFzf
    THEN [exit |-> TRUE, message |-> <<"Cannot specify both">>]
    ELSE [exit |-> FALSE, message |-> <<>>]

Optional(values) == {[def |-> FALSE, val |-> FALSE]} \cup
                    { [def |-> TRUE, val |-> v] : v \in values }

(* values.force ?? true *)
deleteHandler_forceDelete_defaultTrue(force) == IF force.def THEN force.val ELSE TRUE

(* Line 57 (part_004), line 65 (part_005): values.force ?? false *)
deleteHandler_forceDelete(force) == IF force.def THEN force.val ELSE FALSE

(* Lines 94-101 (part_004), 109-116 (part_005). *)
deleteHandler_exitCode(error) ==
    IF error.name = "WorktreeNotFoundError" THEN exitCodes.validationError
    ELSE IF IsWorktreeError(error) /\ MessageHasUncommittedChanges(error)
         THEN exitCodes.validationError
         ELSE exitCodes.generalError

(* Line 123 of part_005: the commands to run after the delete, if any. *)
deleteHandler_commands(source, configResult) ==
    IF /\ source = "part_005"
       /\ isOk(configResult)
       /\ configResult.value.postDelete.def
       /\ configResult.value.postDelete.val.commands.def
    THEN Present(configResult.value.postDelete.val.commands.val)
    ELSE Absent

(* deleteHandler_afterDelete going on to the commands after a failed delete. *)
deleteHandler_afterDelete_noExit(result, commands) ==
    IF commands.def /\ commands.val # <<>>
    THEN [exit |-> FALSE, code |-> 0, message |-> <<>>, commands |-> commands.val]
    ELSE [exit |-> TRUE, code |-> exitCodes.success, message |-> <<>>,
          commands |-> <<>>]

(* Lines 94-111 (part_004), 109-155 (part_005): from the value of        *)
(* deleteWorktreeCore to the exit, or to the first post-delete command.  *)
deleteHandler_afterDelete(result, commands) ==
    IF isErr(result)
    THEN [exit |-> TRUE, code |-> deleteHandler_exitCode(result.error),
          message |-> Message(result.error), commands |-> <<>>]
    ELSE IF commands.def /\ commands.val # <<>>
    THEN [exit |-> FALSE, code |-> 0, message |-> <<>>, commands |-> commands.val]
    ELSE [exit |-> TRUE, code |-> exitCodes.success, message |-> <<>>,
          commands |-> <<>>]

(* deleteHandler_afterCommand going on to the next command whatever the *)
(* exit code was.                                                       *)
deleteHandler_afterCommand_noExitCodeCheck(cmdResult, command) ==
    IF isErr(cmdResult)
    THEN [exit |-> TRUE,
          code |-> IF cmdResult.error.hasExitCode
                   THEN Nullish(cmdResult.error.exitCode, exitCodes.generalError)
                   ELSE exitCodes.generalError,
          message |-> <<"Post-delete command failed: ", command>>]
    ELSE [exit |-> FALSE, code |-> 0, message |-> <<>>]

(* Lines 136-151 of part_005: from the value of execInWorktree to the exit, *)
(* or to the next turn of the loop.                                         *)
deleteHandler_afterCommand(cmdResult, command) ==
    IF isErr(cmdResult)
    THEN [exit |-> TRUE,
          code |-> IF cmdResult.error.hasExitCode
                   THEN Nullish(cmdResult.error.exitCode, exitCodes.generalError)
                   ELSE exitCodes.generalError,
          message |-> <<"Post-delete command failed: ", command>>]
    ELSE IF cmdResult.value.exitCode # 0
    THEN [exit |-> TRUE, code |-> cmdResult.value.exitCode,
          message |-> <<"Post-delete command failed: ", command>>]
    ELSE [exit |-> FALSE, code |-> 0, message |-> <<>>]

(* Lines 129-134 of part_005: execInWorktree(gitRoot, ".", [shell, "-c", command]) *)
DeleteHandlerExec(command) ==
    ExecInWorktreeCall(GitRoot, <<".">>,
                       <<ShellOf(hargs.processEnv), "-c", command>>,
                       [interactive |-> FALSE], hargs.processEnv)

(* Lines 13-60 (part_004), 21-68 (part_005): the arguments are parsed and *)
(* checked, getGitRoot is awaited.                                        *)
DeleteHandlerStart ==
    /\ hpc = "idle"
    /\ \E source \in {"part_004", "part_005"}, positionals \in Positionals,
          force \in Optional({TRUE}), current \in Optional({TRUE}), fzf \in BOOLEAN,
          processEnv \in {<<>>, [SHELL |-> "/bin/bash"]} :
         LET deleteCurrent == IF current.def THEN current.val ELSE FALSE
             useFzf == fzf
         IN
         /\ hargs' = [handler |-> "delete", source |-> source,
                      positionals |-> positionals, force |-> force,
                      current |-> deleteCurrent, fzf |-> useFzf,
                      processEnv |-> processEnv]
         /\ LET e == deleteHandler_argCheck(positionals, deleteCurrent, useFzf) IN
            IF e.exit
            THEN exitWithError(e.message, exitCodes.validationError)
            ELSE hpc' = "getGitRoot" /\ hexit' = hexit
    /\ UNCHANGED <<hloc, hlog, fsVars, attachVars, execVars, spawns,
                 configVars>>

(* getGitRoot answers or throws; part_005 awaits loadConfig next. *)
DeleteHandlerGitRoot ==
    /\ hpc = "getGitRoot" /\ hargs.handler = "delete"
    /\ \/ exitWithError(<<"Error", "getGitRoot">>, exitCodes.generalError)
       \/ /\ hpc' = IF hargs.source = "part_005" THEN "loadConfig" ELSE "select"
          /\ hexit' = hexit
    /\ UNCHANGED <<hargs, hloc, hlog, fsVars, attachVars, execVars, spawns,
                 configVars>>

(* Lines 71-80 of part_005: loadConfig answers; validation and parse errors *)
(* are warned about.                                                        *)
DeleteHandlerConfigLoaded ==
    /\ hpc = "loadConfig" /\ hargs.handler = "delete"
    /\ \E configResult \in loadConfig(GitRoot) :
         /\ hloc' = [hloc EXCEPT !.configResult = configResult]
         /\ hlog' = hlog \o deleteHandler_configWarnings(configResult)
    /\ hpc' = "select"
    /\ UNCHANGED <<hargs, hexit, fsVars, attachVars, execVars, spawns,
                 configVars>>

(* Lines 62-92 (part_004), 82-107 (part_005): the name comes from the *)
(* current worktree, from fzf or from the arguments; deleteWorktreeCore *)
(* is called.                                                          *)
DeleteHandlerSelect ==
    /\ hpc = "select" /\ hargs.handler = "delete"
    /\ LET call(log, n) ==
             /\ hloc' = [hloc EXCEPT !.worktreeName = n,
                                     !.force = deleteHandler_forceDelete(hargs.force)]
             /\ hlog' = Append(log, Called("deleteWorktreeCore",
                                  [name |-> n,
                                   force |-> deleteHandler_forceDelete(hargs.force)],
                                  NoResult))
             /\ hpc' = "core_validate" /\ hexit' = hexit
           stop(log) == hloc' = hloc /\ hlog' = log
       IN IF hargs.current
          THEN \E answer \in getCurrentWorktree(GitRoot) :
                 LET log == Append(hlog, Called("getCurrentWorktree", <<>>, answer)) IN
                 IF isErr(answer)
                 THEN exitWithError(<<"Error", "getCurrentWorktree">>,
                                    exitCodes.generalError) /\ stop(log)
                 ELSE IF ~answer.value.def
                 THEN exitWithError(<<"Not in a worktree directory">>,
                                    exitCodes.validationError) /\ stop(log)
                 ELSE call(log, answer.value.val)
          ELSE IF hargs.fzf
          THEN \E answer \in selectWorktreeWithFzf(GitRoot) :
                 LET log == Append(hlog, Called("selectWorktreeWithFzf", <<>>, answer)) IN
                 IF isErr(answer)
                 THEN exitWithError(<<"Error", "fzf">>, exitCodes.generalError)
                      /\ stop(log)
                 ELSE IF ~answer.value.def
                 THEN exitWithSuccess /\ stop(log)
                 ELSE call(log, answer.value.val)
          ELSE call(hlog, hargs.positionals[1])
    /\ UNCHANGED <<hargs, fsVars, attachVars, execVars, spawns, configVars>>

(* deleteWorktreeCore returned `result`: the handler exits, or starts the *)
(* first post-delete command.                                             *)
DeleteHandlerAfterCore(result) ==
    LET commands == deleteHandler_commands(hargs.source, hloc.configResult)
        e == deleteHandler_afterDelete(result, commands)
        k == CHOOSE k \in 1..Len(hlog) : hlog[k].fn = "deleteWorktreeCore"
    IN /\ hlog' = [hlog EXCEPT ![k].result = result]
       /\ IF e.exit
          THEN /\ exitWithError(e.message, e.code)
               /\ hloc' = [hloc EXCEPT !.result = result]
               /\ UNCHANGED execVars
          ELSE /\ hpc' = "hook" /\ hexit' = hexit
               /\ hloc' = [hloc EXCEPT !.result = result, !.commands = e.commands,
                                       !.i = 1]
               /\ DeleteHandlerExec(e.commands[1])

(* The core: validateWorktreeExists answers. *)
DeleteCoreValidated ==
    /\ hpc = "core_validate"
    /\ LET validation == validateWorktreeExists(GitRoot, hloc.worktreeName)
           e == deleteWorktree_afterValidate(validation, [force |-> hloc.force])
       IN IF e.next = "done"
          THEN DeleteHandlerAfterCore(e.res)
          ELSE /\ hpc' = e.next
               /\ UNCHANGED <<hloc, hexit, hlog, execVars>>
    /\ UNCHANGED <<hargs, fsVars, attachVars, spawns, configVars>>

(* The core: the status of the worktree is known. *)
DeleteCoreStatus ==
    /\ hpc = "core_status"
    /\ LET e == deleteWorktree_afterStatus(hloc.worktreeName,
                    getWorktreePath(GitRoot, hloc.worktreeName))
       IN IF e.next = "done"
          THEN DeleteHandlerAfterCore(e.res)
          ELSE /\ hpc' = e.next
               /\ UNCHANGED <<hloc, hexit, hlog, execVars>>
    /\ UNCHANGED <<hargs, fsVars, attachVars, spawns, configVars>>

(* The core: the backend removed the worktree, or failed to. *)
DeleteCoreRemoved ==
    /\ hpc = "core_remove"
    /\ \E o \in removeWorktree(GitRoot, getWorktreePath(GitRoot, hloc.worktreeName)) :
         /\ dirs' = o.dirs
         /\ registered' = o.registered
         /\ dirty' = o.dirty
         /\ DeleteHandlerAfterCore(deleteWorktree_afterRemove(hloc.worktreeName,
                                                               o.result))
    /\ UNCHANGED <<hargs, branches, attachVars, spawns, configVars>>

(* Lines 136-155 of part_005: execInWorktree returned for command i. *)
DeleteHandlerHookDone ==
    /\ hpc = "hook" /\ hargs.handler = "delete"
    /\ epc = "done"
    /\ LET e == deleteHandler_afterCommand(eres, hloc.commands[hloc.i]) IN
         IF e.exit
         THEN /\ exitWithError(e.message, e.code)
              /\ hloc' = hloc
              /\ ExecTaken
         ELSE IF hloc.i < Len(hloc.commands)
         THEN /\ hloc' = [hloc EXCEPT !.i = hloc.i + 1]
              /\ DeleteHandlerExec(hloc.commands[hloc.i + 1])
              /\ UNCHANGED <<hpc, hexit>>
         ELSE /\ exitWithSuccess
              /\ hloc' = hloc
              /\ ExecTaken
    /\ UNCHANGED <<hargs, hlog, fsVars, attachVars, spawns, configVars>>

(* deleteHandler reads no branch. *)
InitDelete ==
    FsInit /\ branches = ValidNames /\ AttachInit /\ ExecIdle /\ spawns = <<>>
    /\ HandlerIdle /\ ConfigIdle

NextDelete ==
    \/ DeleteHandlerStart
    \/ DeleteHandlerGitRoot
    \/ DeleteHandlerConfigLoaded
    \/ DeleteHandlerSelect
    \/ DeleteCoreValidated
    \/ DeleteCoreStatus
    \/ DeleteCoreRemoved
    \/ DeleteHandlerHookDone
    \/ HandlerExecStep
    \/ HandlerRestart

SpecDelete == InitDelete /\ [][NextDelete]_vars

----------------------------------------------------------------------------
(* Claims about attachWorktreeCore, checked under SpecAttach *)

EventsOf(log, p, ev) == { k \in 1..Len(log) : log[k].p = p /\ log[k].ev = ev }

BranchAnswered(log, p, answer) ==
    \E k \in EventsOf(log, p, "branchExists.result") : log[k].detail = answer

(* C2: when an invocation of attach with a valid name and an absent target  *)
(* path learns from branchExists that the branch does not exist, that step  *)
(* returns BranchNotFound, leaves the directories and the worktree records  *)
(* as they were, and the invocation has not called attachWorktree.           *)
C2_BranchNotFoundNoMutation ==
    [][\A p \in Invocations :
          (apc[p] = "branchExists" /\ BranchAnswered(alog', p, "false"))
          => /\ apc'[p] = "done"
             /\ ares'[p] = err(BranchNotFoundError(aname[p]))
             /\ EventsOf(alog', p, "attachWorktree") = {}
             /\ UNCHANGED <<dirs, registered, dirty, branches>>]_vars

C2_Witness ==
    \E p \in Invocations :
        /\ apc[p] = "done"
        /\ isOk(validateWorktreeName(aname[p]))
        /\ BranchAnswered(alog, p, "false")
        /\ ares[p] = err(BranchNotFoundError(aname[p]))

(* C3: an attach called after an attach of the same name returned ok fails  *)
(* at once with WorktreeAlreadyExists, and calls neither branchExists nor   *)
(* attachWorktree.                                                          *)
C3_SecondAttachAlreadyExists ==
    \A i \in 1..Len(alog) : \A j \in 1..Len(alog) :
        ( /\ i < j
          /\ alog[i].ev = "return" /\ alog[i].detail = "ok"
          /\ alog[j].ev = "call" /\ alog[j].name = alog[i].name )
        => LET q == alog[j].p IN
             /\ apc[q] = "done"
             /\ ares[q] = err(WorktreeAlreadyExistsError(alog[j].name))
             /\ EventsOf(alog, q, "branchExists") = {}
             /\ EventsOf(alog, q, "attachWorktree") = {}

C3_Witness ==
    \E i \in 1..Len(alog) :
        /\ i < Len(alog)
        /\ alog[i].ev = "return" /\ alog[i].detail = "ok"
        /\ alog[i + 1].ev = "call" /\ alog[i + 1].name = alog[i].name
        /\ ares[alog[i + 1].p] = err(WorktreeAlreadyExistsError(alog[i].name))

(* The names of the events of invocation p, in order. *)
EventNamesOf(log, p) ==
    LET own == SelectSeq(log, LAMBDA e : e.p = p)
    IN [k \in 1..Len(own) |-> own[k].ev]

IsPrefix(s, t) == Len(s) <= Len(t) /\ SubSeq(t, 1, Len(s)) = s

AttachTraces ==
    { <<"call", "return">>,
      <<"call", "branchExists", "branchExists.result", "return">>,
      <<"call", "branchExists", "branchExists.result", "attachWorktree",
        "attachWorktree.result", "return">> }

BackendAnswered(log, p, answer) ==
    \E k \in EventsOf(log, p, "attachWorktree.result") : log[k].detail = answer

(* C13: an invocation of attach validates the name, then checks that the    *)
(* target path is absent, then asks branchExists, then calls attachWorktree, *)
(* and returns at the first of these that fails: InvalidWorktreeName for an  *)
(* invalid name even if the path exists, WorktreeAlreadyExists for a valid   *)
(* name whose path exists without asking the backend, the error of           *)
(* branchExists or BranchNotFound without calling attachWorktree, the error  *)
(* of attachWorktree otherwise; attachWorktree is called at most once, only  *)
(* for a valid name after branchExists answered true, and ok(path) is        *)
(* returned only when attachWorktree succeeded.                              *)
C13_ChecksInOrder ==
    [][\A p \in Invocations :
         LET n == aname'[p]
             path == getWorktreePath(GitRoot, n)
         IN
         /\ \E t \in AttachTraces : IsPrefix(EventNamesOf(alog', p), t)
         /\ Cardinality(EventsOf(alog', p, "attachWorktree")) <= 1
         /\ EventsOf(alog', p, "attachWorktree") # {}
              => isOk(validateWorktreeName(n)) /\ BranchAnswered(alog', p, "true")
         /\ (apc[p] = "idle" /\ apc'[p] # "idle")
              => IF isErr(validateWorktreeName(n))
                 THEN /\ apc'[p] = "done"
                      /\ ares'[p] = err(InvalidWorktreeNameError(n))
                 ELSE IF path \in dirs
                 THEN /\ apc'[p] = "done"
                      /\ ares'[p] = err(WorktreeAlreadyExistsError(n))
                 ELSE apc'[p] = "branchExists"
         /\ (apc[p] = "branchExists" /\ apc'[p] # "branchExists")
              => IF BranchAnswered(alog', p, "error")
                 THEN apc'[p] = "done" /\ ares'[p] = err(GitError(n))
                 ELSE IF BranchAnswered(alog', p, "false")
                 THEN apc'[p] = "done" /\ ares'[p] = err(BranchNotFoundError(n))
                 ELSE BranchAnswered(alog', p, "true") /\ apc'[p] = "attachWorktree"
         /\ (apc[p] = "attachWorktree" /\ apc'[p] # "attachWorktree")
              => /\ apc'[p] = "done"
                 /\ IF BackendAnswered(alog', p, "ok")
                    THEN ares'[p] = ok(path) /\ path \in registered'
                    ELSE ares'[p] = err(GitError(n))
         /\ isOk(ares'[p]) => BackendAnswered(alog', p, "ok") ]_vars

C13_Witness ==
    \E p \in Invocations :
        /\ apc[p] = "done"
        /\ ares[p] = ok(getWorktreePath(GitRoot, aname[p]))
        /\ EventNamesOf(alog, p)
             = <<"call", "branchExists", "branchExists.result", "attachWorktree",
                 "attachWorktree.result", "return">>
        /\ \E q \in Invocations :
             /\ apc[q] = "done"
             /\ ares[q] = err(InvalidWorktreeNameError(aname[q]))
             /\ getWorktreePath(GitRoot, aname[q]) \in dirs

(* What an attach of `name` reads of the shared state and what its backend *)
(* call can do to its own path.                                             *)
AttachView(name) ==
    LET path == getWorktreePath(GitRoot, name) IN
    [ exists |-> existsSync(path),
      registered |-> path \in registered,
      dirty |-> path \in dirty,
      entry |-> attachWorktreeCore_entry(GitRoot, name),
      branch |-> branchExists(GitRoot, name),
      attach |-> { [result |-> o.result, exists |-> path \in o.dirs,
                    registered |-> path \in o.registered] :
                   o \in attachWorktree(GitRoot, path, name) } ]

(* C14: a step of an attach invocation changes nothing an attach of a      *)
(* different valid name reads or has produced: the existence and the       *)
(* record of the other name's path, the answers its checks and its backend *)
(* call can get, and the position and the result of the other invocation   *)
(* are the same before and after the step, however the steps interleave;   *)
(* so each invocation returns and leaves its path as it does alone.        *)
C14_DistinctNamesIndependent ==
    [][\A q \in Invocations :
         apc'[q] # apc[q]
         => /\ \A m \in ValidNames \ {aname'[q]} : AttachView(m)' = AttachView(m)
            /\ \A p \in Invocations \ {q} :
                 /\ apc'[p] = apc[p] /\ ares'[p] = ares[p] /\ aname'[p] = aname[p]
                 /\ EventNamesOf(alog', p) = EventNamesOf(alog, p) ]_vars

C14_Witness ==
    /\ \A p \in Invocations : apc[p] = "done" /\ isOk(ares[p])
    /\ aname[1] # aname[2]
    /\ \E i, j, k \in 1..Len(alog) :
         /\ i < j /\ j < k
         /\ alog[i].p = 1 /\ alog[i].ev = "attachWorktree"
         /\ alog[j].p = 2 /\ alog[j].ev = "attachWorktree.result"
         /\ alog[k].p = 1 /\ alog[k].ev = "attachWorktree.result"

----------------------------------------------------------------------------
(* Claims about the execution bridge, checked under SpecExec *)

LastSpawn == spawns[Len(spawns)]

(* C4: when the child process of execInWorktree exits with a code c, zero or *)
(* not, execInWorktree returns the success value carrying c.                 *)
C4_ExitCodeIsSuccessValue ==
    ( /\ epc = "done" /\ eop.op = "execInWorktree"
      /\ spawns # <<>> /\ LastSpawn.outcome.kind = "exit" )
    => eres = ok([exitCode |-> LastSpawn.outcome.code.val])

C4_Witness ==
    /\ epc = "done" /\ eop.op = "execInWorktree"
    /\ spawns # <<>> /\ LastSpawn.outcome.kind = "exit"
    /\ LastSpawn.outcome.code.val # 0
    /\ isOk(eres) /\ eres.value.exitCode = LastSpawn.outcome.code.val

HasPhantomEnv(spawn) ==
    /\ {"PHANTOM", "PHANTOM_NAME", "PHANTOM_PATH"} \subseteq DOMAIN spawn.childEnv
    /\ spawn.childEnv["PHANTOM"] = "1"
    /\ spawn.childEnv["PHANTOM_NAME"] = spawn.worktreeName
    /\ spawn.childEnv["PHANTOM_PATH"] = spawn.config.cwd

(* C5: the environment of every process spawned in a worktree holds       *)
(* PHANTOM=1, the name of the worktree and its resolved path, for         *)
(* shellInWorktree and for execInWorktree.                                *)
C5_EnvAlwaysInjected ==
    \A k \in 1..Len(spawns) :
        spawns[k].worktreeName \in ValidNames => HasPhantomEnv(spawns[k])

(* C6: when validateWorktreeExists fails, execInWorktree and shellInWorktree *)
(* return that WorktreeNotFound error and spawnProcess is not called.        *)
C6_NoSpawnWhenNotFound ==
    (epc = "done" /\ isErr(evalidation))
    => /\ eres = err(evalidation.error)
       /\ eres.error = WorktreeNotFoundError(eop.worktreeName)
       /\ spawns = <<>>

C6_Witness ==
    /\ epc = "done" /\ eop.op = "execInWorktree"
    /\ isErr(evalidation)
    /\ eres = err(WorktreeNotFoundError(eop.worktreeName))
    /\ spawns = <<>>

----------------------------------------------------------------------------
(* Claims about shellHandler, checked under SpecShell *)

TmuxCalls == { k \in 1..Len(hlog) : hlog[k].fn = "executeTmuxCommand" }

(* C10: when shellHandler has handed the shell to tmux and has exited: if    *)
(* tmux failed, the exit code is the error's own exit code when it carries   *)
(* one and the general error code otherwise; if tmux succeeded, the exit     *)
(* code is success; in both cases no shell was spawned directly.             *)
C10_TmuxExitCode ==
    (hpc = "exited" /\ hargs.handler = "shell")
    => \A k \in TmuxCalls :
         LET r == hlog[k].result IN
           /\ spawns = <<>>
           /\ isOk(r) => hexit.code = exitCodes.success
           /\ isErr(r) =>
                hexit.code = IF r.error.hasExitCode /\ r.error.exitCode.def
                             THEN r.error.exitCode.val
                             ELSE exitCodes.generalError

C10_Witness ==
    /\ hpc = "exited" /\ hargs.handler = "shell"
    /\ \E k \in TmuxCalls :
         /\ isErr(hlog[k].result)
         /\ hlog[k].result.error.exitCode.def
         /\ hlog[k].result.error.exitCode.val # exitCodes.generalError
         /\ hexit.code = hlog[k].result.error.exitCode.val

----------------------------------------------------------------------------
(* Claims about deleteHandler, checked under SpecDelete *)

CoreCalls(log) == { k \in 1..Len(log) : log[k].fn = "deleteWorktreeCore" }

DeletedPath == getWorktreePath(GitRoot, hloc.worktreeName)

(* C1: a worktree with uncommitted changes is removed only in a run of the  *)
(* handler that was given --force; the handler passes force = true to the   *)
(* core only when --force was given; and the step at which an unforced      *)
(* delete finds the worktree dirty fails with the uncommitted-changes error *)
(* and leaves the directories and worktree records as they were.            *)
C1_DirtyNeedsForce ==
    [][ /\ \A path \in dirty \cap dirs :
             path \notin dirs' => (hargs.force.def /\ hargs.force.val)
        /\ \A k \in CoreCalls(hlog') : hlog'[k].arg.force => hargs'.force.def
        /\ (hpc = "core_status" /\ DeletedPath \in dirty)
             => /\ UNCHANGED <<dirs, registered, dirty>>
                /\ hloc'.result = err(UncommittedChangesError(hloc.worktreeName))
                /\ hpc' = "exited"
                /\ hexit'.code = exitCodes.validationError ]_vars

C1_Witness ==
    /\ hpc = "exited" /\ hargs.handler = "delete" /\ ~hargs.force.def
    /\ hloc.result = err(UncommittedChangesError(hloc.worktreeName))
    /\ DeletedPath \in dirty \cap dirs \cap registered

ConfiguredCommands ==
    IF isOk(hloc.configResult) /\ hloc.configResult.value.postDelete.def
       /\ hloc.configResult.value.postDelete.val.commands.def
    THEN hloc.configResult.value.postDelete.val.commands.val
    ELSE <<>>

ExitedWithZero(spawn) == spawn.outcome.kind = "exit" /\ spawn.outcome.code.val = 0

(* C7: the post-delete commands are executed in the order of the           *)
(* configuration; a command is executed only if every command before it    *)
(* exited with 0; and when a command exits with a nonzero code the handler *)
(* exits with that code and a message naming that command.                 *)
C7_HooksInOrderAbortOnFailure ==
    hargs.handler = "delete" =>
      /\ Len(spawns) <= Len(ConfiguredCommands)
      /\ \A k \in 1..Len(spawns) :
           /\ spawns[k].config.args = <<"-c", ConfiguredCommands[k]>>
           /\ k < Len(spawns) => ExitedWithZero(spawns[k])
      /\ ( /\ hpc = "exited" /\ spawns # <<>>
           /\ LastSpawn.outcome.kind = "exit" /\ ~ExitedWithZero(LastSpawn) )
         => /\ hexit.code = LastSpawn.outcome.code.val
            /\ hexit.message = <<"Post-delete command failed: ",
                                 ConfiguredCommands[Len(spawns)]>>

C7_Witness ==
    /\ hargs.handler = "delete" /\ hpc = "exited"
    /\ Len(ConfiguredCommands) = 3 /\ Len(spawns) = 2
    /\ ExitedWithZero(spawns[1])
    /\ LastSpawn.outcome.kind = "exit" /\ LastSpawn.outcome.code.val = 2
    /\ hexit.code = 2

(* C8: in deleteHandler a post-delete command is executed (or about to be) *)
(* only if deleteWorktreeCore returned success in this run.                *)
C8_NoHooksAfterFailedDelete ==
    (hargs.handler = "delete" /\ (spawns # <<>> \/ epc # "idle" \/ hpc = "hook"))
    => \E k \in CoreCalls(hlog) : isOk(hlog[k].result)

C8_Witness ==
    /\ hargs.handler = "delete" /\ hpc = "exited"
    /\ ConfiguredCommands # <<>>
    /\ \E k \in CoreCalls(hlog) :
         isErr(hlog[k].result) /\ hlog[k].result.error.name = "GitError"
    /\ spawns = <<>>

(* C9: every post-delete command is spawned with the path of the deleted *)
(* worktree as its working directory.                                    *)
C9_HookCwdIsWorktree ==
    hargs.handler = "delete" =>
      \A k \in 1..Len(spawns) : spawns[k].config.cwd = DeletedPath


Warnings(log) == { k \in 1..Len(log) : log[k].fn = "output.warn" }

(* loadConfig has answered in this run of the handler, with an error. *)
ConfigFailed ==
    /\ hargs.handler = "delete"
    /\ hloc.configResult # NoResult
    /\ isErr(hloc.configResult)

(* C11: when loadConfig answers, the handler goes on to the selection of   *)
(* the worktree whatever the answer; it prints no warning for an absent    *)
(* configuration file and for a loaded configuration, and exactly one      *)
(* warning, naming the error, for every other error; after a configuration *)
(* error the handler prints no further warning, runs no post-delete        *)
(* command, and its next step calls the core delete with the selected name *)
(* unless the selection itself gave no name.                               *)
C11_ConfigErrorsWarnedNotFatal ==
    [][ /\ (hpc = "loadConfig" /\ hargs.handler = "delete")
             => /\ hpc' = "select" /\ ~hexit'.exited
                /\ hloc'.configResult \in loadConfig(GitRoot)
                /\ LET r == hloc'.configResult IN
                   IF isErr(r) /\ r.error.name # "ConfigNotFoundError"
                   THEN /\ Cardinality(Warnings(hlog')) = 1
                        /\ \A k \in Warnings(hlog') : hlog'[k].arg = r.error.name
                   ELSE Warnings(hlog') = {}
        /\ ConfigFailed'
             => /\ spawns' = <<>> /\ hpc' # "hook"
                /\ hpc # "loadConfig" => Warnings(hlog') = Warnings(hlog)
        /\ (ConfigFailed /\ hpc = "select")
             => /\ hpc' \in {"core_validate", "exited"}
                /\ hpc' = "core_validate" <=> CoreCalls(hlog') # {}
                /\ (~hargs.current /\ ~hargs.fzf)
                     => \E k \in CoreCalls(hlog') :
                          hlog'[k].arg.name = hargs.positionals[1] ]_vars

C11_Witness ==
    /\ hpc = "exited" /\ ConfigFailed
    /\ hloc.configResult = err(ConfigParseError)
    /\ Cardinality(Warnings(hlog)) = 1
    /\ isOk(hloc.result)
    /\ hexit.code = exitCodes.success
    /\ DeletedPath \notin dirs
    /\ spawns = <<>>


(* The number of selection mechanisms the arguments give. *)
Mechanisms ==
    (IF Len(hargs.positionals) > 0 THEN 1 ELSE 0)
    + (IF hargs.current THEN 1 ELSE 0)
    + (IF hargs.fzf THEN 1 ELSE 0)

Answers(log, fn) == { log[k].result : k \in { j \in 1..Len(log) : log[j].fn = fn } }

(* The name the one mechanism of the arguments resolved to, if any. *)
SelectedNames(log) ==
    IF hargs.current
    THEN { a.value.val : a \in { b \in Answers(log, "getCurrentWorktree") :
                                  isOk(b) /\ b.value.def } }
    ELSE IF hargs.fzf
    THEN { a.value.val : a \in { b \in Answers(log, "selectWorktreeWithFzf") :
                                  isOk(b) /\ b.value.def } }
    ELSE { hargs.positionals[1] }

DeleteSelectionOk ==
    hargs.handler = "delete" =>
      /\ Cardinality(CoreCalls(hlog)) <= 1
      /\ \A k \in CoreCalls(hlog) :
           Mechanisms = 1 /\ hlog[k].arg.name \in SelectedNames(hlog)
      /\ Mechanisms # 1 =>
           /\ hpc = "exited" /\ hexit.code = exitCodes.validationError
           /\ hlog = <<>>
      /\ ok(Absent) \in Answers(hlog, "getCurrentWorktree") =>
           /\ hpc = "exited" /\ hexit.code = exitCodes.validationError
           /\ CoreCalls(hlog) = {}
      /\ ok(Absent) \in Answers(hlog, "selectWorktreeWithFzf") =>
           /\ hpc = "exited" /\ hexit.code = exitCodes.success
           /\ CoreCalls(hlog) = {}

(* C15: a run of the delete handler calls the core delete at most once,    *)
(* and only when the arguments give exactly one of a name, --current and   *)
(* --fzf, with the name that mechanism resolved to; with no mechanism or   *)
(* more than one it exits with the validation error code before calling    *)
(* anything; when --current finds no worktree it exits with the validation *)
(* error code and when fzf selects nothing it exits with success, both     *)
(* without calling the core; and no directory or worktree record changes   *)
(* in a run that has not called the core.                                  *)
C15_DeleteOnlySelected ==
    [][ /\ DeleteSelectionOk'
        /\ <<dirs, registered, dirty>> # <<dirs', registered', dirty'>>
             => CoreCalls(hlog) # {} ]_vars

C15_Witness ==
    /\ hpc = "exited" /\ hargs.handler = "delete"
    /\ hargs.fzf /\ Mechanisms = 1
    /\ ok(Absent) \in Answers(hlog, "selectWorktreeWithFzf")
    /\ hexit.code = exitCodes.success
    /\ CoreCalls(hlog) = {}
    /\ \E n \in ValidNames : getWorktreePath(GitRoot, n) \in dirs \cap registered

----------------------------------------------------------------------------
(* Claims about validateConfig, checked under SpecConfig *)

(* Absent, or an array of strings. *)
OptionalStringList(value) ==
    value = JUndefined
    \/ (value.t = "array" /\ \A k \in 1..Len(value.items) : value.items[k].t = "string")

HasDeclaredShape(config) ==
    /\ OptionalStringList(Get(Get(config, "postCreate"), "copyFiles"))
    /\ OptionalStringList(Get(Get(config, "postCreate"), "commands"))
    /\ OptionalStringList(Get(Get(config, "postDelete"), "commands"))

(* C12: a value validateConfig accepts has postCreate.copyFiles,           *)
(* postCreate.commands and postDelete.commands absent or arrays of         *)
(* strings, and the post-delete loop iterates over the strings of that     *)
(* array without throwing; a value in which one of the three is present    *)
(* and not an array of strings is rejected with ConfigValidationError.     *)
C12_AcceptedConfigHasShape ==
    vresult # NoResult =>
      /\ isOk(vresult) =>
           /\ vresult.value = vconfig
           /\ HasDeclaredShape(vconfig)
           /\ ~deleteHandler_loop(vconfig).throws
           /\ deleteHandler_loop(vconfig).items
                = Get(Get(vconfig, "postDelete"), "commands").items
      /\ ~HasDeclaredShape(vconfig) =>
           isErr(vresult) /\ vresult.error.name = "ConfigValidationError"

====
